---- MODULE Spec2Model ----
(***************************************************************************)
(* Avatar-control session (VTubeStudioClient) and the avatar chat loop     *)
(* (run_avatar_chat) of EMPATHY_AVATAR_AI.                                 *)
(*                                                                         *)
(* SessionSpec drives one VTubeStudioClient object with arbitrary          *)
(* sequences of connect / apply_emotion / close calls against a host that  *)
(* answers every request nondeterministically.                             *)
(* ChatSpec is run_avatar_chat on the asyncio event loop: the main         *)
(* coroutine, the background speech tasks, the speech lock and the         *)
(* worker threads that run tts.say.                                        *)
(***************************************************************************)
EXTENDS Integers, Sequences, FiniteSets, TLC

VARIABLES
    ws,                  \* VTubeStudioClient.ws: "None" or "open"
    auth_token,          \* VTubeStudioClient.auth_token: "None" or a token
    hotkey_cache,        \* VTubeStudioClient.hotkey_cache: name -> hotkeyID
    last_active_hotkey,  \* VTubeStudioClient._last_active_hotkey
    hostOn,              \* host side: hotkeyIDs of the expressions that are on
    hostAuth,            \* host side: is the open connection authenticated
    triggered,           \* has any HotkeyTriggerRequest been sent so far
    lastCall,            \* the most recent client call and what it sent
    prevCall,            \* SessionSpec: the call before lastCall
    rejected,            \* SessionSpec: lastCall got an error response
    pc,                  \* run_avatar_chat: the await the main coroutine is at
    avatar_ready,        \* run_avatar_chat: avatar_ready
    turn,                \* the governing (emotion, score) of the current turn
    turns,               \* number of turns begun
    printed,             \* number of "Bot [...]" lines printed
    speak_tasks,         \* run_avatar_chat: speak_tasks, one record per task
    locked,              \* tts_lock: is it held
    waiters,             \* tts_lock: tasks queued in acquire(), oldest first
    readyQ,              \* event loop: callbacks ready to run (0 is main)
    started,             \* indices of the tasks whose tts.say began, in order
    rule,                \* ThresholdSpec: a turn's two classifications and
                         \* the governing pair chosen from them
    web                  \* WebSpec: the web Live2D server: its listeners'
                         \* handlers, the client pool, whether tts exists

sessionVars == <<ws, auth_token, hotkey_cache, last_active_hotkey, hostOn,
                 hostAuth, triggered, lastCall, prevCall, rejected>>

chatVars == <<pc, avatar_ready, turn, turns, printed, speak_tasks, locked,
              waiters, readyQ, started, rule, web>>

vars == <<sessionVars, chatVars>>

None == "None"

\* Python truthiness of an Optional[str]: None and "" are falsy.
Falsy(x) == x = None \/ x = ""

\* dict.get(key): the value, or None when the key is absent.
Get(d, k) == IF k \in DOMAIN d THEN d[k] ELSE None

\* dict with d[k] = v added or overwritten.
Put(d, k, v) == [x \in (DOMAIN d) \cup {k} |-> IF x = k THEN v ELSE d[x]]

EmptyDict == [x \in {} |-> None]

----------------------------------------------------------------------------
(* Configuration: avatar_chatbot.DEFAULT_HOTKEYS.                          *)

\* A variant of the map in which no two labels share a trigger name.
hotkeys_unshared ==
    [excited |-> "Excited", happy |-> "Happy", neutral |-> "Neutral",
     concerned |-> "Concern", sad |-> "Sad", angry |-> "Angry"]

DEFAULT_HOTKEYS ==
    [excited |-> "Happy", happy |-> "Happy", neutral |-> "Neutral",
     concerned |-> "Concern", sad |-> "Sad", angry |-> "Angry"]

\* str.lower() on the labels the callers pass.
Lower(label) ==
    CASE label = "SAD" -> "sad"
      [] label = "Happy" -> "happy"
      [] OTHER -> label

\* str.strip() on the hotkey names the host lists.
Strip(name) ==
    CASE name = " Sad " -> "Sad"
      [] name = "  " -> ""
      [] OTHER -> name

----------------------------------------------------------------------------
(* The host (VTube Studio).  Its answers are inputs of the calls.          *)

\* Hotkeys the host may list in a HotkeysInCurrentModelResponse.
HostHotkeys ==
    { [name |-> "Happy", hotkeyID |-> "h1", type |-> "ToggleExpression"],
      [name |-> " Sad ", hotkeyID |-> "s1", type |-> "ToggleExpression"],
      [name |-> "Wave",  hotkeyID |-> "w1", type |-> "TriggerAnimation"],
      [name |-> "  ",    hotkeyID |-> "e1", type |-> "ToggleExpression"],
      [name |-> "Neutral", hotkeyID |-> "", type |-> "ToggleExpression"] }

\* A response message of the host: its messageType, whether it carries an
\* errorID field, and data.availableHotkeys (empty when the field is absent).
Response(type, err, hotkeys) ==
    [messageType |-> type, errorID |-> err, availableHotkeys |-> hotkeys]

\* Answers to a hotkey-list request: an APIError, a message carrying an
\* errorID and no hotkey list, or a list of hotkeys.
ListResponses ==
    {Response("APIError", FALSE, {}), Response("APIError", TRUE, {}),
     Response("HotkeysInCurrentModelResponse", TRUE, {})}
    \cup {Response("HotkeysInCurrentModelResponse", FALSE, h) :
            h \in SUBSET HostHotkeys}

\* Answers to a HotkeyTriggerRequest.
TriggerResponses ==
    {Response("HotkeyTriggerResponse", FALSE, {}),
     Response("APIError", FALSE, {}),
     Response("HotkeyTriggerResponse", TRUE, {})}

\* Answers to an AuthenticationTokenRequest (recv bounded by wait_for 30s).
TokenResponses == {"token", "notoken", "timeout", "malformed"}

\* Answers to an AuthenticationRequest.
AuthResponses == {"authenticated", "denied", "malformed"}

Request(type, id, reqid) ==
    [messageType |-> type, hotkeyID |-> id, requestID |-> reqid]

\* The host flips an expression exactly when it accepts a trigger for it.
Flip(on, id) == IF id \in on THEN on \ {id} ELSE on \cup {id}

----------------------------------------------------------------------------
(* VTubeStudioClient.  Every method is an operator from the object state   *)
(* s (fields, host state, requests sent so far, error raised) and the      *)
(* host's answers to the state when the method returns or raises.          *)

\* The request of an earlier call that is still unanswered on the open
\* connection when the next call begins.  The wire is the sequence of
\* "send" (ws.send) and "recv" (ws.recv) on the connection.
InFlight(wire) ==
    IF wire # <<>> /\ wire[Len(wire)] = "send" THEN <<"send">> ELSE <<>>

Session ==
    [ws |-> ws, auth_token |-> auth_token, hotkey_cache |-> hotkey_cache,
     last_active_hotkey |-> last_active_hotkey, hostOn |-> hostOn,
     hostAuth |-> hostAuth, sent |-> <<>>, raised |-> "",
     wire |-> InFlight(lastCall.wire), rejected |-> FALSE]

\* await self.ws.send(json.dumps(request))
Send(s, req) == [s EXCEPT !.sent = Append(@, req), !.wire = Append(@, "send")]

\* A variant in which the response is never read.
recv_skipped(s, err) == s

\* response = await self.ws.recv(); err: the response signals an error.
Recv(s, err) ==
    [s EXCEPT !.wire = Append(@, "recv"), !.rejected = (@ \/ err)]

\* An error is signalled by messageType "APIError" or an errorID field.
SignalsError(resp) == resp.messageType = "APIError" \/ resp.errorID

Raise(s, err) == [s EXCEPT !.raised = err]

\* A variant that rebuilds the catalog from the list alone.
RECURSIVE ReplaceHotkeys(_, _)
ReplaceHotkeys(cache, hotkeys) ==
    IF hotkeys = {} THEN EmptyDict
    ELSE LET hotkey == CHOOSE h \in hotkeys : TRUE
             rest == ReplaceHotkeys(cache, hotkeys \ {hotkey})
         IN  IF ~Falsy(Strip(hotkey.name)) /\ ~Falsy(hotkey.hotkeyID)
                /\ hotkey.type = "ToggleExpression"
             THEN Put(rest, Strip(hotkey.name), hotkey.hotkeyID)
             ELSE rest

\* The loop of _load_hotkeys over availableHotkeys: cache the
\* ToggleExpression hotkeys with non-empty stripped name and non-empty id.
RECURSIVE CacheHotkeys(_, _)
CacheHotkeys(cache, hotkeys) ==
    IF hotkeys = {} THEN cache
    ELSE LET hotkey == CHOOSE h \in hotkeys : TRUE
             name == Strip(hotkey.name)
             rest == hotkeys \ {hotkey}
         IN  IF ~Falsy(name) /\ ~Falsy(hotkey.hotkeyID)
                /\ hotkey.type = "ToggleExpression"
             THEN CacheHotkeys(Put(cache, name, hotkey.hotkeyID), rest)
             ELSE CacheHotkeys(cache, rest)

\* A variant in which an error answer to the hotkey-list request is fatal.
load_hotkeys_strict(s, listResp) ==
    LET s1 == Recv(Send(s, Request("HotkeysInCurrentModelRequest", "",
                                   "hotkey_list")),
                   SignalsError(listResp))
    IN  IF SignalsError(listResp) THEN Raise(s1, "VTS hotkey list error")
        ELSE [s1 EXCEPT !.hotkey_cache =
                 CacheHotkeys(@, listResp.availableHotkeys)]

load_hotkeys(s, listResp) ==
    LET s1 == Recv(Send(s, Request("HotkeysInCurrentModelRequest", "",
                                   "hotkey_list")),
                   SignalsError(listResp))
    IN  IF listResp.messageType = "APIError" THEN s1
        ELSE [s1 EXCEPT !.hotkey_cache =
                 CacheHotkeys(@, listResp.availableHotkeys)]

trigger_hotkey(s, hotkey_name, hotkey_id, emotion, listResp, resp) ==
    LET cached == Get(s.hotkey_cache, hotkey_name)
        s1 == IF Falsy(hotkey_id) /\ Falsy(cached)
              THEN load_hotkeys(s, listResp) ELSE s
        id == IF ~Falsy(hotkey_id) THEN hotkey_id
              ELSE Get(s1.hotkey_cache, hotkey_name)
        reqid == "trigger_" \o (IF Falsy(emotion) THEN hotkey_name ELSE emotion)
        s2 == Recv(Send(s1, Request("HotkeyTriggerRequest", id, reqid)),
                   SignalsError(resp))
    IN  IF Falsy(id) THEN s1
        ELSE IF SignalsError(resp)
             THEN Raise(s2, "VTS rejected hotkey")
             ELSE [s2 EXCEPT !.hostOn = Flip(@, id)]

\* A variant that re-triggers a hotkey that is already active.
never_active(s, hotkey_name) == FALSE

\* apply_emotion: is the same hotkey already active.
already_active(s, hotkey_name) == s.last_active_hotkey = hotkey_name

\* A variant that sends the new trigger without toggling the old one off.
toggle_off_skipped(s, listResp, offResp) == s

\* apply_emotion: if another expression was active, toggle it off first.
toggle_off_previous(s, listResp, offResp) ==
    IF ~Falsy(s.last_active_hotkey)
       /\ s.last_active_hotkey \in DOMAIN s.hotkey_cache
    THEN trigger_hotkey(s, s.last_active_hotkey, None, None, listResp, offResp)
    ELSE s

\* A variant that accepts calls on a session without a connection.
always_connected(s) == FALSE

\* apply_emotion: if not self.ws
not_connected(s) == s.ws = None

\* A variant that looks every label up in the catalog, mapped or not.
always_mapped(hotkey_name) == FALSE

\* apply_emotion: if not hotkey_name
unmapped(hotkey_name) == Falsy(hotkey_name)

\* A variant that refreshes the catalog on every call.
refresh_always(s, hotkey_name, listResp) == load_hotkeys(s, listResp)

\* apply_emotion: if the hotkey id is not cached, refresh once.
refresh_once(s, hotkey_name, listResp) ==
    IF Falsy(Get(s.hotkey_cache, hotkey_name))
    THEN load_hotkeys(s, listResp) ELSE s

\* A variant that records the emotion label as the active name.
activate_label(s, hotkey_name, emotion) ==
    [s EXCEPT !.last_active_hotkey = Lower(emotion)]

\* apply_emotion: self._last_active_hotkey = hotkey_name
activate(s, hotkey_name, emotion) ==
    [s EXCEPT !.last_active_hotkey = hotkey_name]

apply_emotion(s, emotion, listResp, offResp, onResp) ==
    LET hotkey_name == Get(DEFAULT_HOTKEYS, Lower(emotion))
        s1 == refresh_once(s, hotkey_name, listResp)
        hotkey_id == Get(s1.hotkey_cache, hotkey_name)
        s2 == toggle_off_previous(s1, listResp, offResp)
        s3 == trigger_hotkey(s2, hotkey_name, hotkey_id, emotion,
                             listResp, onResp)
    IN  IF not_connected(s) THEN Raise(s, "Not connected to VTube Studio")
        ELSE IF unmapped(hotkey_name) THEN s
        ELSE IF Falsy(hotkey_id) THEN s1
        ELSE IF already_active(s1, hotkey_name) THEN s1
        ELSE IF s2.raised # "" THEN s2
        ELSE IF s3.raised # "" THEN s3
        ELSE activate(s3, hotkey_name, emotion)

connect(s, tokResp, authResp, listResp) ==
    LET s0 == [s EXCEPT !.ws = "open", !.hostAuth = FALSE, !.wire = <<>>]
        sT == Send(s0, Request("AuthenticationTokenRequest", "", "token_request"))
        s1 == Recv(sT, FALSE)
        s2 == IF ~Falsy(s0.auth_token) THEN s0
              ELSE IF tokResp = "timeout" THEN Raise(sT, "TimeoutError")
              ELSE IF tokResp = "malformed" THEN Raise(s1, "JSONDecodeError")
              ELSE IF tokResp = "token" THEN [s1 EXCEPT !.auth_token = "token"]
              ELSE s1
        s3 == Recv(Send(s2, Request("AuthenticationRequest", "", "auth_request")),
                   FALSE)
        s4 == IF Falsy(s2.auth_token) THEN s2
              ELSE IF authResp = "malformed" THEN Raise(s3, "JSONDecodeError")
              ELSE IF authResp = "denied" THEN Raise(s3, "Authentication failed")
              ELSE [s3 EXCEPT !.hostAuth = TRUE]
    IN  IF s2.raised # "" THEN s2
        ELSE IF s4.raised # "" THEN s4
        ELSE load_hotkeys(s4, listResp)

\* A variant that also forgets the active trigger name.
close_resets(s) ==
    IF s.ws # None
    THEN [s EXCEPT !.ws = None, !.hostAuth = FALSE, !.wire = <<>>,
                   !.last_active_hotkey = None]
    ELSE s

close(s) ==
    IF s.ws # None
    THEN [s EXCEPT !.ws = None, !.hostAuth = FALSE, !.wire = <<>>]
    ELSE s

----------------------------------------------------------------------------
(* SessionSpec: arbitrary calls on one client object.                      *)

\* Labels passed to apply_emotion.
Labels == {"excited", "happy", "SAD", "neutral", "bored"}

\* A call as observed from outside: the method and its argument, the
\* requests it sent in order, the error it raised ("" when it returned),
\* the active trigger name before and after it, the catalog after it, and
\* the sends and receives on the connection up to its end.
NoCall ==
    [op |-> "none", arg |-> "", sent |-> <<>>, raised |-> "",
     before |-> None, active |-> None, cache |-> EmptyDict, wire |-> <<>>]

Call(op, arg, s) ==
    [op |-> op, arg |-> arg, sent |-> s.sent, raised |-> s.raised,
     before |-> last_active_hotkey, active |-> s.last_active_hotkey,
     cache |-> s.hotkey_cache, wire |-> s.wire]

IsTrigger(req) == req.messageType = "HotkeyTriggerRequest"

\* The object and host state after a call that ended in state s.
Returns(op, arg, s) ==
    /\ ws' = s.ws
    /\ auth_token' = s.auth_token
    /\ hotkey_cache' = s.hotkey_cache
    /\ last_active_hotkey' = s.last_active_hotkey
    /\ hostOn' = s.hostOn
    /\ hostAuth' = s.hostAuth
    /\ triggered' = (triggered \/ \E i \in 1..Len(s.sent) : IsTrigger(s.sent[i]))
    /\ lastCall' = Call(op, arg, s)

\* VTubeStudioClient.__init__, with or without a stored token, and a
\* host with every expression off.
SessionFresh ==
    /\ ws = None
    /\ auth_token \in {None, "token"}
    /\ hotkey_cache = EmptyDict
    /\ last_active_hotkey = None
    /\ hostOn = {}
    /\ hostAuth = FALSE
    /\ triggered = FALSE
    /\ lastCall = NoCall
    /\ prevCall = NoCall
    /\ rejected = FALSE

\* No turn's classifications are under observation.
NoRule ==
    [flow |-> "", user |-> <<"", 0>>, bot |-> <<"", 0>>,
     governing |-> <<"", 0>>]

\* No web server is running.
NoWeb == [tts |-> FALSE, clients |-> {}, handler |-> << >>]

\* run_avatar_chat before its first turn.
ChatFresh ==
    /\ avatar_ready = FALSE
    /\ turn = <<"", 0>>
    /\ turns = 0
    /\ printed = 0
    /\ speak_tasks = <<>>
    /\ locked = FALSE
    /\ waiters = <<>>
    /\ readyQ = <<>>
    /\ started = <<>>

SessionInit ==
    /\ SessionFresh
    /\ pc = "idle"
    /\ ChatFresh
    /\ rule = NoRule
    /\ web = NoWeb

\* The host answers the requests that are sent: a call that sends no
\* hotkey-list request gets no answer to one.
Unasked == Response("", FALSE, {})

Refreshes(s, emotion) ==
    /\ s.ws # None
    /\ ~Falsy(Get(DEFAULT_HOTKEYS, Lower(emotion)))
    /\ Falsy(Get(s.hotkey_cache, Get(DEFAULT_HOTKEYS, Lower(emotion))))

\* The host answers a request on a connection that is not authenticated
\* with an APIError.
Errors(responses) == {r \in responses : r.messageType = "APIError"}

ListAnswers(asked, authed) ==
    IF ~asked THEN {Unasked}
    ELSE IF authed THEN ListResponses ELSE Errors(ListResponses)

TokenAnswers(asked) == IF asked THEN TokenResponses ELSE {"unasked"}

AuthAnswers(asked) == IF asked THEN AuthResponses ELSE {"unasked"}

CallConnect ==
    \E tokResp \in TokenAnswers(Falsy(auth_token)) :
      \E authResp \in AuthAnswers(~Falsy(auth_token) \/ tokResp = "token") :
        \E listResp \in ListAnswers(authResp \in {"authenticated", "unasked"}
                                      /\ tokResp \in {"token", "notoken", "unasked"},
                                    authResp = "authenticated") :
          /\ Returns("connect", "", connect(Session, tokResp, authResp, listResp))
          /\ rejected' = connect(Session, tokResp, authResp, listResp).rejected
          /\ prevCall' = lastCall
          /\ UNCHANGED chatVars

TriggerAnswers(asked, authed) ==
    IF ~asked THEN {Unasked}
    ELSE IF authed THEN TriggerResponses ELSE Errors(TriggerResponses)

\* The number of triggers the call sends when the host accepts them all.
TriggersAsked(s, emotion, listResp) ==
    Len(SelectSeq(apply_emotion(s, emotion, listResp, Unasked, Unasked).sent,
                  IsTrigger))

CallApplyEmotion ==
    \E emotion \in Labels :
      \E listResp \in ListAnswers(Refreshes(Session, emotion), hostAuth) :
        \E offResp \in TriggerAnswers(TriggersAsked(Session, emotion, listResp) = 2,
                                      hostAuth),
           onResp \in TriggerAnswers(TriggersAsked(Session, emotion, listResp) >= 1,
                                     hostAuth) :
          /\ Returns("apply_emotion", emotion,
                     apply_emotion(Session, emotion, listResp, offResp, onResp))
          /\ rejected' = apply_emotion(Session, emotion, listResp, offResp,
                                       onResp).rejected
          /\ prevCall' = lastCall
          /\ UNCHANGED chatVars

CallClose ==
    /\ Returns("close", "", close(Session))
    /\ rejected' = FALSE
    /\ prevCall' = lastCall
    /\ UNCHANGED chatVars

SessionNext == CallConnect \/ CallApplyEmotion \/ CallClose

SessionSpec == SessionInit /\ [][SessionNext]_vars

----------------------------------------------------------------------------
(* run_avatar_chat on the asyncio event loop.                              *)
(*                                                                         *)
(* The loop runs one ready callback at a time, oldest first, up to its     *)
(* next await.  The main coroutine is callback 0; speech task i is         *)
(* callback i.  Whatever completes outside the loop (a line typed, the     *)
(* reply, the host's answers, a tts.say thread returning) makes the        *)
(* coroutine that awaits it ready again.                                   *)

\* Number of turns the user starts before exiting.
MaxTurns == 3

THRESHOLD == 35

\* Lines the user types.
InputLines == {"hello", " Exit ", "QUIT"}

\* user.lower().strip()
LowerStrip(line) ==
    CASE line = " Exit " -> "exit"
      [] line = "QUIT" -> "quit"
      [] OTHER -> line

\* classifier.classify results (label, compound score in hundredths) of the
\* user text and of the reply.
UserClassified == {<<"sad", -35>>, <<"angry", -34>>}

BotClassified == {<<"happy", 50>>, <<"neutral", 0>>}

Abs(x) == IF x < 0 THEN -x ELSE x

\* The threshold of the web flows (web_emoji_chatbot, web_live2d_chatbot).
WEB_THRESHOLD == 20

\* A variant that needs the user's score to exceed the threshold.
governing_above(T, user, bot) == IF Abs(user[2]) > T THEN user ELSE bot

\* if abs(user_score) >= T: the user's pair, else the reply's.
GoverningAt(T, user, bot) == IF Abs(user[2]) >= T THEN user ELSE bot

\* Prefer the user's tone when clearly expressed, else the reply's.
Governing(user, bot) == GoverningAt(THRESHOLD, user, bot)

NoTurn == <<"", 0>>

\* A speech task: where its coroutine is suspended, whether a cancellation
\* is pending for its next step, and the worker thread running tts.say.
\*   created            scheduled, not started
\*   waiting            in tts_lock.acquire(), future pending
\*   woken              in tts_lock.acquire(), future set by a release
\*   waiting_cancelled  in tts_lock.acquire(), future cancelled
\*   speaking           holds the lock, awaits to_thread(tts.say)
\*   spoke              holds the lock, the to_thread future is done
\*   speaking_cancelled holds the lock, the to_thread future was cancelled
\*   done / cancelled   finished
NewTask == [st |-> "created", must_cancel |-> FALSE, thread |-> "none"]

Settled(task) == task.st \in {"done", "cancelled"}

AllSettled == \A i \in 1..Len(speak_tasks) : Settled(speak_tasks[i])

\* The loop-side state the coroutines act on.
Loop ==
    [tasks |-> speak_tasks, locked |-> locked, waiters |-> waiters,
     readyQ |-> readyQ, started |-> started]

Remove(seq, x) == SelectSeq(seq, LAMBDA y : y # x)

\* A variant that wakes the newest waiter instead of the oldest.
wake_up_last(l) ==
    IF l.waiters # <<>> /\ l.tasks[l.waiters[Len(l.waiters)]].st = "waiting"
    THEN [l EXCEPT !.tasks[l.waiters[Len(l.waiters)]].st = "woken",
                   !.readyQ = Append(@, l.waiters[Len(l.waiters)])]
    ELSE l

\* Lock._wake_up_first: set the future of the first waiter unless done.
wake_up_first(l) ==
    IF l.waiters # <<>> /\ l.tasks[Head(l.waiters)].st = "waiting"
    THEN [l EXCEPT !.tasks[Head(l.waiters)].st = "woken",
                   !.readyQ = Append(@, Head(l.waiters))]
    ELSE l

\* Lock.release
release(l) == wake_up_first([l EXCEPT !.locked = FALSE])

\* asyncio.to_thread(tts.say, text): the call starts in a worker thread.
to_thread_say(l, i) ==
    [l EXCEPT !.tasks[i].st = "speaking", !.tasks[i].thread = "running",
              !.started = Append(@, i)]

\* A lock that lets a newcomer in ahead of the tasks already queued.
acquire_barging(l, i) ==
    IF ~l.locked
    THEN to_thread_say([l EXCEPT !.locked = TRUE], i)
    ELSE [l EXCEPT !.waiters = Append(@, i), !.tasks[i].st = "waiting"]

\* Lock.acquire, first part: take the free lock when nobody is queued
\* (every queued future cancelled), else queue and suspend.
acquire(l, i) ==
    IF ~l.locked
       /\ \A k \in 1..Len(l.waiters) :
             l.tasks[l.waiters[k]].st = "waiting_cancelled"
    THEN to_thread_say([l EXCEPT !.locked = TRUE], i)
    ELSE [l EXCEPT !.waiters = Append(@, i), !.tasks[i].st = "waiting"]

\* Lock.acquire, after the future was set: leave the queue, take the lock.
acquire_resume(l, i) ==
    to_thread_say([l EXCEPT !.waiters = Remove(@, i), !.locked = TRUE], i)

\* Lock.acquire, CancelledError at the await: leave the queue, pass the
\* wake-up on if the lock is free, re-raise.
acquire_cancelled(l, i) ==
    LET l1 == [l EXCEPT !.waiters = Remove(@, i), !.tasks[i].st = "cancelled"]
    IN  IF ~l1.locked THEN wake_up_first(l1) ELSE l1

\* A variant of "async with tts_lock" that a finished task leaves without
\* releasing the lock.
exit_lock_kept(l, i, st) == [l EXCEPT !.tasks[i].st = st]

\* Leaving "async with tts_lock": __aexit__ releases the lock on return,
\* on an exception of tts.say and on CancelledError alike.
exit_lock(l, i, st) == release([l EXCEPT !.tasks[i].st = st])

\* One step of speech task i (speak_async) on the loop.
step_task(l, i) ==
    LET t == l.tasks[i]
    IN  CASE t.st = "created" /\ t.must_cancel ->
                [l EXCEPT !.tasks[i].st = "cancelled"]
          [] t.st = "created" /\ ~t.must_cancel -> acquire(l, i)
          [] t.st = "woken" /\ ~t.must_cancel -> acquire_resume(l, i)
          [] t.st = "woken" /\ t.must_cancel -> acquire_cancelled(l, i)
          [] t.st = "waiting_cancelled" -> acquire_cancelled(l, i)
          [] t.st = "spoke" /\ ~t.must_cancel -> exit_lock(l, i, "done")
          [] t.st = "spoke" /\ t.must_cancel -> exit_lock(l, i, "cancelled")
          [] t.st = "speaking_cancelled" -> exit_lock(l, i, "cancelled")
          [] OTHER -> l

\* A variant that leaves the tasks queued for the lock alone.
cancel_unless_waiting(l, i) ==
    LET t == l.tasks[i]
    IN  CASE t.st \in {"created", "spoke"} ->
                [l EXCEPT !.tasks[i].must_cancel = TRUE]
          [] t.st = "speaking" ->
                [l EXCEPT !.tasks[i].st = "speaking_cancelled",
                          !.readyQ = Append(@, i)]
          [] OTHER -> l

\* Task.cancel() on speech task i.
cancel(l, i) ==
    LET t == l.tasks[i]
    IN  CASE t.st \in {"created", "woken", "spoke"} ->
                [l EXCEPT !.tasks[i].must_cancel = TRUE]
          [] t.st = "waiting" ->
                [l EXCEPT !.tasks[i].st = "waiting_cancelled",
                          !.readyQ = Append(@, i)]
          [] t.st = "speaking" ->
                [l EXCEPT !.tasks[i].st = "speaking_cancelled",
                          !.readyQ = Append(@, i)]
          [] OTHER -> l

\* for task in speak_tasks: if not task.done(): task.cancel()
RECURSIVE cancel_from(_, _)
cancel_from(l, i) ==
    IF i > Len(l.tasks) THEN l ELSE cancel_from(cancel(l, i), i + 1)

\* A variant of the shutdown loop that cancels nothing.
cancel_none(l) == l

cancel_all(l) == cancel_from(l, 1)

\* task = asyncio.create_task(speak_async(reply)); speak_tasks.append(task)
create_task(l) ==
    [l EXCEPT !.tasks = Append(@, NewTask),
              !.readyQ = Append(@, Len(l.tasks) + 1)]

LoopBecomes(l) ==
    /\ speak_tasks' = l.tasks
    /\ locked' = l.locked
    /\ waiters' = l.waiters
    /\ readyQ' = l.readyQ
    /\ started' = l.started

\* The main coroutine leaves the head of the ready queue.
MainRuns == [Loop EXCEPT !.readyQ = Tail(@)]

\* A variant in which the prompt waits for the speech tasks to finish.
ResumableAfterSpeech ==
    \/ pc \in {"connect", "reply", "apply", "close"}
    \/ pc \in {"input", "gather"} /\ AllSettled

\* What the main coroutine awaits has completed: a line was typed, the
\* reply or the host's answers arrived, close() returned or timed out, or
\* every gathered task has finished.
Resumable ==
    \/ pc \in {"connect", "input", "reply", "apply", "close"}
    \/ pc = "gather" /\ AllSettled

InQueue(i) == \E k \in 1..Len(readyQ) : readyQ[k] = i

WakeMain ==
    /\ Resumable
    /\ ~InQueue(0)
    /\ readyQ' = Append(readyQ, 0)
    /\ UNCHANGED <<sessionVars, rule, web, pc, avatar_ready, turn, turns, printed,
                   speak_tasks, locked, waiters, started>>

AtHead(i) == readyQ # <<>> /\ Head(readyQ) = i

\* await avatar.connect(), in its try/except.
RunConnect ==
    /\ pc = "connect" /\ AtHead(0)
    /\ \E tokResp \in TokenAnswers(Falsy(auth_token)) :
        \E authResp \in AuthAnswers(~Falsy(auth_token) \/ tokResp = "token") :
          \E listResp \in ListAnswers(authResp \in {"authenticated", "unasked"}
                                        /\ tokResp \in {"token", "notoken", "unasked"},
                                      authResp = "authenticated") :
            LET s == connect(Session, tokResp, authResp, listResp)
            IN  /\ Returns("connect", "", s)
                /\ avatar_ready' = (s.raised = "")
    /\ pc' = "input"
    /\ LoopBecomes(MainRuns)
    /\ UNCHANGED <<prevCall, rejected, rule, web, turn, turns, printed>>

\* Shutdown after the session was closed or skipped: cancel the pending
\* speech tasks, then gather them if there are any, else tts.stop().
CancelSpeech ==
    /\ LoopBecomes(cancel_all(MainRuns))
    /\ pc' = IF speak_tasks # <<>> THEN "gather" ELSE "done"

\* user = await asyncio.to_thread(input, "You: ") and the exit test.
RunInput ==
    /\ pc = "input" /\ AtHead(0)
    /\ \E line \in InputLines :
         IF LowerStrip(line) \in {"exit", "quit"}
         THEN /\ IF avatar_ready
                 THEN pc' = "close" /\ LoopBecomes(MainRuns)
                 ELSE CancelSpeech
              /\ UNCHANGED turns
         ELSE /\ turns < MaxTurns
              /\ turns' = turns + 1
              /\ pc' = "reply"
              /\ LoopBecomes(MainRuns)
    /\ UNCHANGED <<sessionVars, rule, web, avatar_ready, turn, printed>>

\* reply = await asyncio.to_thread(gemini.reply, user), then the two
\* classifications and the threshold rule.  An exception of gemini.reply
\* leaves run_avatar_chat; asyncio.run cancels the remaining tasks.
RunReply ==
    /\ pc = "reply" /\ AtHead(0)
    /\ \/ /\ \E user \in UserClassified, bot \in BotClassified :
               turn' = Governing(user, bot)
          /\ pc' = "apply"
          /\ LoopBecomes(MainRuns)
       \/ /\ pc' = "crashed"
          /\ LoopBecomes(cancel_all(MainRuns))
          /\ UNCHANGED turn
    /\ UNCHANGED <<sessionVars, rule, web, avatar_ready, turns, printed>>

\* The rest of the turn: apply_emotion when the avatar is ready (a failure
\* clears avatar_ready), the output line, the speech task.
RunApply ==
    /\ pc = "apply" /\ AtHead(0)
    /\ IF avatar_ready
       THEN \E listResp \in ListAnswers(Refreshes(Session, turn[1]), hostAuth) :
              \E offResp \in TriggerAnswers(
                                TriggersAsked(Session, turn[1], listResp) = 2,
                                hostAuth),
                 onResp \in TriggerAnswers(
                                TriggersAsked(Session, turn[1], listResp) >= 1,
                                hostAuth) :
                LET s == apply_emotion(Session, turn[1], listResp, offResp, onResp)
                IN  /\ Returns("apply_emotion", turn[1], s)
                    /\ avatar_ready' = (s.raised = "")
       ELSE UNCHANGED <<sessionVars, rule, web, avatar_ready>>
    /\ printed' = printed + 1
    /\ LoopBecomes(create_task(MainRuns))
    /\ pc' = "input"
    /\ turn' = NoTurn
    /\ UNCHANGED <<prevCall, rejected, rule, web, turns>>

\* await asyncio.wait_for(avatar.close(), timeout=5): close() returned, or
\* it was abandoned at the timeout before ws was cleared.
RunClose ==
    /\ pc = "close" /\ AtHead(0)
    /\ \/ Returns("close", "", close(Session))
       \/ UNCHANGED sessionVars
    /\ CancelSpeech
    /\ UNCHANGED <<prevCall, rejected, rule, web, avatar_ready, turn, turns, printed>>

\* await asyncio.wait_for(asyncio.gather(*speak_tasks, ...), timeout=5),
\* then tts.stop().
RunGather ==
    /\ pc = "gather" /\ AtHead(0)
    /\ pc' = "done"
    /\ LoopBecomes(MainRuns)
    /\ UNCHANGED <<sessionVars, rule, web, avatar_ready, turn, turns, printed>>

\* The loop runs the next step of a speech task.
RunTask ==
    \E i \in 1..Len(speak_tasks) :
        /\ AtHead(i)
        /\ LoopBecomes(step_task([Loop EXCEPT !.readyQ = Tail(@)], i))
        /\ UNCHANGED <<sessionVars, rule, web, pc, avatar_ready, turn, turns, printed>>

\* tts.say returns, or raises, in its worker thread; the task that awaits
\* it becomes ready.
SayEnds ==
    \E i \in 1..Len(speak_tasks), outcome \in {"returned", "raised"} :
        /\ speak_tasks[i].thread = "running"
        /\ LoopBecomes(
             IF speak_tasks[i].st = "speaking"
             THEN [Loop EXCEPT !.tasks[i].thread = outcome,
                               !.tasks[i].st = "spoke",
                               !.readyQ = Append(@, i)]
             ELSE [Loop EXCEPT !.tasks[i].thread = outcome])
        /\ UNCHANGED <<sessionVars, rule, web, pc, avatar_ready, turn, turns, printed>>

ChatInit ==
    /\ SessionFresh
    /\ pc = "connect"
    /\ ChatFresh
    /\ rule = NoRule
    /\ web = NoWeb

ChatNext ==
    \/ WakeMain
    \/ RunConnect
    \/ RunInput
    \/ RunReply
    \/ RunApply
    \/ RunClose
    \/ RunGather
    \/ RunTask
    \/ SayEnds

ChatSpec == ChatInit /\ [][ChatNext]_vars

\* The loop runs every ready callback; a line is eventually typed and the
\* network calls eventually complete.  Nothing makes tts.say return.
ChatFairSpec ==
    /\ ChatSpec
    /\ WF_vars(WakeMain)
    /\ WF_vars(RunConnect \/ RunInput \/ RunReply \/ RunApply \/ RunClose
               \/ RunGather)
    /\ WF_vars(RunTask)

----------------------------------------------------------------------------
(* ThresholdSpec: the threshold rule of a turn in each of the four flows,  *)
(* applied to classifications drawn from both sides of both thresholds.    *)

\* Compound scores in hundredths.
UserScores ==
    {-100, -36, -35, -34, -21, -20, -19, 0, 19, 20, 21, 34, 35, 36, 100}

BotScores == {-50, 0, 50}

\* classifier.classify(user) and classifier.classify(reply)
UserPairs == {"sad", "happy"} \X UserScores

BotPairs == {"neutral", "excited"} \X BotScores

Flows == {"console", "avatar", "web_emoji", "web_live2d"}

ThresholdInit ==
    /\ SessionFresh
    /\ auth_token = None
    /\ pc = "idle"
    /\ ChatFresh
    /\ \E flow \in Flows, user \in UserPairs, bot \in BotPairs :
          rule = [flow |-> flow, user |-> user, bot |-> bot,
                  governing |-> NoTurn]
    /\ web = NoWeb

\* The turn of a flow chooses its governing pair.
Chooses(flow, governing) ==
    /\ rule.flow = flow
    /\ rule.governing = NoTurn
    /\ rule' = [rule EXCEPT !.governing = governing]
    /\ UNCHANGED <<sessionVars, pc, avatar_ready, turn, turns, printed,
                   speak_tasks, locked, waiters, readyQ, started, web>>

\* emoji_chatbot.main
ConsoleTurn == Chooses("console", GoverningAt(THRESHOLD, rule.user, rule.bot))

\* avatar_chatbot.run_avatar_chat
AvatarTurn == Chooses("avatar", Governing(rule.user, rule.bot))

\* web_emoji_chatbot.handle_user_message
WebEmojiTurn ==
    Chooses("web_emoji", GoverningAt(WEB_THRESHOLD, rule.user, rule.bot))

\* web_live2d_chatbot.handle_user_message
WebLive2dTurn ==
    Chooses("web_live2d", GoverningAt(WEB_THRESHOLD, rule.user, rule.bot))

ThresholdNext == ConsoleTurn \/ AvatarTurn \/ WebEmojiTurn \/ WebLive2dTurn

ThresholdSpec == ThresholdInit /\ [][ThresholdNext]_vars

----------------------------------------------------------------------------
(* WebSpec: web_live2d_chatbot.  websockets.serve runs one                 *)
(* websocket_handler coroutine per connected listener on one event loop;   *)
(* each handler takes its listener's messages one after another and        *)
(* awaits handle_user_message for each.                                    *)

\* Number of listeners that connect.
MaxListeners == 2

\* Number of messages a listener sends.
MaxMessages == 2

Listeners == 1..MaxListeners

\* What a listener sends: a chat text, a blank text, or malformed JSON.
WebMessages == {"hello", "  ", "{"}

\* A handler: where its coroutine is suspended and how many messages it
\* has taken.
\*   unconnected  the listener has not connected
\*   idle         in "async for message in websocket"
\*   reply        awaits to_thread(gemini.reply, user)
\*   say          awaits to_thread(tts.say, reply)
\*   closed       the handler has ended
NewHandler == [pc |-> "unconnected", taken |-> 0]

\* main(): tts is None when TextToSpeech() raised.
WebInit ==
    /\ SessionFresh
    /\ auth_token = None
    /\ pc = "idle"
    /\ ChatFresh
    /\ rule = NoRule
    /\ \E tts \in BOOLEAN :
          web = [tts |-> tts, clients |-> {},
                 handler |-> [i \in Listeners |-> NewHandler]]

WebBecomes(w) ==
    /\ web' = w
    /\ UNCHANGED <<sessionVars, pc, avatar_ready, turn, turns, printed,
                   speak_tasks, locked, waiters, readyQ, started, rule>>

\* A listener connects: websocket_handler starts and registers it.
WebConnect ==
    \E i \in Listeners :
        /\ web.handler[i].pc = "unconnected"
        /\ WebBecomes([web EXCEPT !.handler[i].pc = "idle",
                                  !.clients = @ \cup {i}])

\* The listener's connection ends: the loop over its messages ends and
\* the handler unregisters it.
WebDisconnect ==
    \E i \in Listeners :
        /\ web.handler[i].pc = "idle"
        /\ WebBecomes([web EXCEPT !.handler[i].pc = "closed",
                                  !.clients = @ \ {i}])

\* The handler takes the listener's next message; handle_user_message
\* returns at once for malformed JSON and for blank text, else it starts
\* gemini.reply in a worker thread.
WebMessage ==
    \E i \in Listeners, message \in WebMessages :
        /\ web.handler[i].pc = "idle"
        /\ web.handler[i].taken < MaxMessages
        /\ WebBecomes([web EXCEPT
              !.handler[i].taken = @ + 1,
              !.handler[i].pc = IF message = "hello" THEN "reply" ELSE "idle"])

\* gemini.reply returned: classify, print, broadcast, then tts.say in a
\* worker thread if there is a tts; or gemini.reply raised, which ends the
\* handler through its finally clause.
WebReply ==
    \E i \in Listeners :
        /\ web.handler[i].pc = "reply"
        /\ \/ WebBecomes([web EXCEPT !.handler[i].pc =
                              IF web.tts THEN "say" ELSE "idle"])
           \/ WebBecomes([web EXCEPT !.handler[i].pc = "closed",
                                     !.clients = @ \ {i}])

\* tts.say returned in its worker thread.
WebSayEnds ==
    \E i \in Listeners :
        /\ web.handler[i].pc = "say"
        /\ WebBecomes([web EXCEPT !.handler[i].pc = "idle"])

WebNext == WebConnect \/ WebDisconnect \/ WebMessage \/ WebReply \/ WebSayEnds

WebSpec == WebInit /\ [][WebNext]_vars

----------------------------------------------------------------------------
(* Properties of the session.                                              *)

\* The trigger name the emotion-to-hotkey map gives a label (None: unmapped).
TriggerName(label) == Get(DEFAULT_HOTKEYS, Lower(label))

\* The HotkeyTriggerRequests among the requests a call sent, in order.
Triggers(call) == SelectSeq(call.sent, IsTrigger)

\* The off-toggle request for a trigger name under a catalog.
OffTrigger(cache, name) ==
    Request("HotkeyTriggerRequest", Get(cache, name), "trigger_" \o name)

\* The on-toggle request for a label under a catalog.
OnTrigger(cache, label) ==
    Request("HotkeyTriggerRequest", Get(cache, TriggerName(label)),
            "trigger_" \o label)

\* The last two calls were apply_emotion(a) then apply_emotion(b) on a
\* connected session.
TwoApplies ==
    /\ prevCall.op = "apply_emotion"
    /\ lastCall.op = "apply_emotion"
    /\ prevCall.raised # "Not connected to VTube Studio"

\* The label of a call was resolvable: mapped, and its trigger name in the
\* catalog when the call ended.
Resolvable(call) ==
    /\ ~Falsy(TriggerName(call.arg))
    /\ TriggerName(call.arg) \in DOMAIN call.cache

\* apply_emotion(A) then apply_emotion(B), both resolvable, different
\* trigger names.
ToggleTransitionCase ==
    /\ TwoApplies
    /\ Resolvable(prevCall)
    /\ Resolvable(lastCall)
    /\ TriggerName(prevCall.arg) # TriggerName(lastCall.arg)

\* C1 as stated: after apply_emotion(A) then apply_emotion(B) with both
\* labels resolvable and different trigger names, the second call sent
\* exactly two HotkeyTriggerRequests, the off-toggle with the id of A's
\* trigger name and then the on-toggle with the id of B's, and the active
\* trigger name is B's.
C1_ToggleTransition ==
    ToggleTransitionCase =>
        /\ Triggers(lastCall) =
              << OffTrigger(lastCall.cache, TriggerName(prevCall.arg)),
                 OnTrigger(lastCall.cache, lastCall.arg) >>
        /\ last_active_hotkey = TriggerName(lastCall.arg)

\* C1 amended: the same, provided apply_emotion(A) returned normally; the
\* second call then sends the off-toggle for A's trigger name first, and
\* when it returns normally it has sent exactly the off-toggle for A's name
\* and the on-toggle for B's, in that order, and the active trigger name is
\* B's; when the host rejects one of the two triggers the call raises after
\* that trigger and the active trigger name stays A's.
C1_ToggleTransitionAccepted ==
    (ToggleTransitionCase /\ prevCall.raised = "") =>
        LET off == OffTrigger(lastCall.cache, TriggerName(prevCall.arg))
            on  == OnTrigger(lastCall.cache, lastCall.arg)
        IN  IF lastCall.raised = ""
            THEN /\ Triggers(lastCall) = <<off, on>>
                 /\ last_active_hotkey = TriggerName(lastCall.arg)
            ELSE /\ Triggers(lastCall) \in {<<off>>, <<off, on>>}
                 /\ last_active_hotkey = TriggerName(prevCall.arg)

C1_Witness ==
    /\ ToggleTransitionCase
    /\ prevCall.raised = ""
    /\ lastCall.raised = ""
    /\ Len(Triggers(lastCall)) = 2
    /\ last_active_hotkey = "Sad"

\* apply_emotion(X) twice in a row for a resolvable label X.
ToggleTwiceCase ==
    /\ TwoApplies
    /\ prevCall.arg = lastCall.arg
    /\ Resolvable(prevCall)

\* The trigger sequence of a call that switches to a label: the off-toggle
\* for the previously active name if there was one, then the on-toggle.
TriggerSequence(call) ==
    (IF call.before # None
     THEN << OffTrigger(call.cache, call.before) >> ELSE << >>)
    \o << OnTrigger(call.cache, call.arg) >>

\* C2 as stated: apply_emotion(X) twice in a row, X resolvable, from any
\* prior state: the first call issued exactly one trigger sequence (the
\* off-toggle for the previously active name if any, then the on-toggle for
\* X), the second call sent nothing at all and left the active trigger name
\* unchanged.
C2_ToggleIdempotence ==
    ToggleTwiceCase =>
        /\ Triggers(prevCall) = TriggerSequence(prevCall)
        /\ lastCall.sent = << >>
        /\ last_active_hotkey = prevCall.active

\* C2 amended: when the first apply_emotion(X) returns normally it issued
\* exactly one trigger sequence, or no trigger at all if X's trigger name
\* was already active; the second call then sends nothing, raises nothing
\* and leaves the active trigger name, X's, unchanged.
C2_ToggleIdempotenceAccepted ==
    (ToggleTwiceCase /\ prevCall.raised = "") =>
        /\ Triggers(prevCall) =
              IF prevCall.before = TriggerName(prevCall.arg)
              THEN << >> ELSE TriggerSequence(prevCall)
        /\ lastCall.sent = << >>
        /\ lastCall.raised = ""
        /\ prevCall.active = TriggerName(prevCall.arg)
        /\ last_active_hotkey = prevCall.active

C2_Witness ==
    /\ ToggleTwiceCase
    /\ prevCall.raised = ""
    /\ Len(Triggers(prevCall)) = 2
    /\ lastCall.sent = << >>
    /\ last_active_hotkey = "Happy"

\* C3: between calls the active trigger name agrees with the host, which
\* starts with every expression off and flips an expression exactly when it
\* accepts a trigger for it: the active name is the one expression that is
\* on, or unset when none is on.
C3_ActiveAgreesWithHost ==
    hostOn = IF last_active_hotkey = None THEN {}
             ELSE {Get(hotkey_cache, last_active_hotkey)}

\* C4 as stated: the active trigger name is None before any trigger has
\* been sent and None after close().
C4_NoneBeforeTriggerAndAfterClose ==
    /\ ~triggered => last_active_hotkey = None
    /\ lastCall.op = "close" => last_active_hotkey = None

\* C4 amended: the active trigger name is None before any trigger has been
\* sent, and close() leaves it as it was (after a successful
\* apply_emotion(X) and close() it is still X's trigger name).
C4_NoneBeforeTriggerKeptByClose ==
    /\ ~triggered => last_active_hotkey = None
    /\ lastCall.op = "close" => last_active_hotkey = lastCall.before
    /\ (lastCall.op = "close" /\ prevCall.op = "apply_emotion"
        /\ prevCall.raised = "" /\ Resolvable(prevCall))
          => last_active_hotkey = TriggerName(prevCall.arg)

C4_Witness ==
    /\ lastCall.op = "close"
    /\ prevCall.op = "apply_emotion"
    /\ prevCall.raised = ""
    /\ Resolvable(prevCall)
    /\ ws = None
    /\ last_active_hotkey = "Happy"

\* C14: an apply_emotion call on a Ready session (connected and
\* authenticated) one of whose requests, a trigger or the on-demand
\* hotkey-list request, is answered with an error response (messageType
\* "APIError" or an errorID field) raises, and leaves the connection
\* handle open and the active trigger name unchanged, and the catalog
\* unchanged when the rejected request was the only one sent.
C14_ErrorResponseRaises ==
    (lastCall.op = "apply_emotion" /\ hostAuth /\ rejected) =>
        /\ lastCall.raised # ""
        /\ ws # None
        /\ last_active_hotkey = lastCall.before
        /\ Len(lastCall.sent) = 1 => hotkey_cache = prevCall.cache

IsListRequest(req) == req.messageType = "HotkeysInCurrentModelRequest"

\* The hotkey-list requests among the requests a call sent.
ListRequests(call) == SelectSeq(call.sent, IsListRequest)

\* The last call was apply_emotion on a session with a connection handle.
AppliedConnected ==
    /\ lastCall.op = "apply_emotion"
    /\ lastCall.raised # "Not connected to VTube Studio"

\* C15: no apply_emotion call sends more than one hotkey-list request, the
\* off-toggle step included; a call for a mapped label sends exactly one
\* when the label's trigger name is not in the catalog and none when it
\* is; when the name is still absent after the refresh the call has sent
\* that one request and nothing else, raises nothing and leaves the active
\* trigger name unchanged.
C15_RefreshAtMostOnce ==
    AppliedConnected =>
        LET name == TriggerName(lastCall.arg)
        IN  /\ Len(ListRequests(lastCall)) <= 1
            /\ (~Falsy(name) /\ name \in DOMAIN prevCall.cache)
                  => ListRequests(lastCall) = << >>
            /\ (~Falsy(name) /\ name \notin DOMAIN prevCall.cache)
                  => Len(ListRequests(lastCall)) = 1
            /\ (~Falsy(name) /\ name \notin DOMAIN hotkey_cache)
                  => /\ Len(lastCall.sent) = 1
                     /\ IsListRequest(lastCall.sent[1])
                     /\ lastCall.raised = ""
                     /\ last_active_hotkey = lastCall.before

\* With Happy active, apply_emotion for a label whose trigger name the
\* host still does not list after the refresh.
C15_Witness ==
    /\ AppliedConnected
    /\ lastCall.before = "Happy"
    /\ TriggerName(lastCall.arg) = "Sad"
    /\ "Sad" \notin DOMAIN hotkey_cache
    /\ Len(lastCall.sent) = 1

\* C16: on a connected session, apply_emotion for a label that has no
\* entry in the emotion-to-hotkey map sends nothing, raises nothing and
\* leaves the active trigger name and the catalog unchanged.
C16_UnmappedEmotionNoOp ==
    (AppliedConnected /\ Falsy(TriggerName(lastCall.arg))) =>
        /\ lastCall.sent = << >>
        /\ lastCall.raised = ""
        /\ last_active_hotkey = lastCall.before
        /\ hotkey_cache = prevCall.cache

\* apply_emotion("bored") on a connected session with an active expression.
C16_Witness ==
    /\ AppliedConnected
    /\ lastCall.arg = "bored"
    /\ ws # None
    /\ last_active_hotkey = "Happy"
    /\ DOMAIN hotkey_cache = {"Happy", "Sad"}

\* C19: close() never raises and never sends; after it the connection
\* handle is absent, whether or not the session was ever connected; a
\* second close() in a row leaves the state as the first left it; and an
\* apply_emotion right after close() fails with the not-connected error
\* without sending and without changing the session.
C19_CloseIdempotent ==
    /\ lastCall.op = "close" =>
          /\ lastCall.sent = << >> /\ lastCall.raised = ""
          /\ ws = None
          /\ last_active_hotkey = lastCall.before
          /\ hotkey_cache = prevCall.cache
    /\ (prevCall.op = "close" /\ lastCall.op = "close") =>
          /\ lastCall.active = prevCall.active
          /\ lastCall.cache = prevCall.cache
    /\ (prevCall.op = "close" /\ lastCall.op = "apply_emotion") =>
          /\ lastCall.raised = "Not connected to VTube Studio"
          /\ lastCall.sent = << >>
          /\ ws = None
          /\ last_active_hotkey = lastCall.before
          /\ hotkey_cache = prevCall.cache

\* A session that was connected and had an expression on was closed, and
\* the apply_emotion that followed was refused.
C19_Witness ==
    /\ prevCall.op = "close"
    /\ prevCall.active = "Happy"
    /\ lastCall.op = "apply_emotion"
    /\ lastCall.arg = "SAD"
    /\ lastCall.raised = "Not connected to VTube Studio"
    /\ DOMAIN hotkey_cache = {"Happy", "Sad"}

\* connect() authenticated and its hotkey-list request was answered with an
\* error response (the token and authentication answers carry none).
ConnectedWithoutCatalog ==
    /\ lastCall.op = "connect"
    /\ hostAuth
    /\ rejected

\* C22: when connect() has authenticated and its hotkey-list request is
\* answered with an error response, connect() still returns normally with
\* the connection open and the catalog as it was, empty on a session that
\* had cached nothing; and an apply_emotion that follows, for a mapped
\* label whose trigger name is not cached, performs its one on-demand
\* refresh instead of failing before it.
C22_FailSoftCatalogLoad ==
    /\ [](ConnectedWithoutCatalog =>
            /\ lastCall.raised = ""
            /\ ws # None
            /\ hotkey_cache = prevCall.cache
            /\ prevCall.op = "none" => hotkey_cache = EmptyDict)
    /\ [][(/\ ConnectedWithoutCatalog
            /\ lastCall'.op = "apply_emotion"
            /\ ~Falsy(TriggerName(lastCall'.arg))
            /\ TriggerName(lastCall'.arg) \notin DOMAIN hotkey_cache)
           => /\ Len(lastCall'.sent) >= 1
              /\ IsListRequest(lastCall'.sent[1])
              /\ Len(ListRequests(lastCall')) = 1
              /\ lastCall'.raised # "Not connected to VTube Studio"]_vars

\* The first connect() of a session authenticated, got an error for its
\* hotkey-list request and returned with an empty catalog.
C22_Witness ==
    /\ ConnectedWithoutCatalog
    /\ prevCall.op = "none"
    /\ lastCall.raised = ""
    /\ Len(ListRequests(lastCall)) = 1
    /\ hotkey_cache = EmptyDict

\* The last call switched from a set active name to another resolvable
\* trigger name.
SwitchedFromActive ==
    /\ AppliedConnected
    /\ lastCall.before # None
    /\ Resolvable(lastCall)
    /\ TriggerName(lastCall.arg) # lastCall.before

\* C23: whenever the active trigger name is set it is a key of the
\* catalog; so an apply_emotion that switches away from a set active name
\* never skips the off-toggle, which is the first trigger it sends, with the
\* id cached for that name, and nothing but triggers follows the first
\* request: the off-toggle needs no catalog refresh.
C23_ActiveNameInCatalog ==
    /\ last_active_hotkey # None => last_active_hotkey \in DOMAIN hotkey_cache
    /\ SwitchedFromActive =>
          /\ Triggers(lastCall) # << >>
          /\ Head(Triggers(lastCall)) = OffTrigger(hotkey_cache, lastCall.before)
          /\ \A k \in 2..Len(lastCall.sent) : IsTrigger(lastCall.sent[k])

\* With Happy active, one call refreshed the catalog for Sad, toggled
\* Happy off and Sad on.
C23_Witness ==
    /\ SwitchedFromActive
    /\ lastCall.before = "Happy"
    /\ last_active_hotkey = "Sad"
    /\ Len(lastCall.sent) = 3
    /\ IsListRequest(lastCall.sent[1])

\* The hotkeys of a list that a refresh caches: expression toggles with a
\* non-empty stripped name and a non-empty id.
Cacheable(hotkeys) ==
    {h \in hotkeys : /\ Strip(h.name) # ""
                     /\ h.hotkeyID # ""
                     /\ h.type = "ToggleExpression"}

\* Lists the host may send later: its hotkeys, Happy possibly under a new id.
LaterLists ==
    SUBSET (HostHotkeys \cup
            {[name |-> "Happy", hotkeyID |-> "h2", type |-> "ToggleExpression"]})

\* The catalog after a refresh of catalog old with a list: every old name
\* is kept, the names of the cacheable hotkeys listed are added, a listed
\* name has an id listed for it and an unlisted name keeps its old id.
GrownBy(old, hotkeys, new) ==
    /\ DOMAIN new = DOMAIN old \cup {Strip(h.name) : h \in Cacheable(hotkeys)}
    /\ \A name \in DOMAIN new :
          LET ids == {h.hotkeyID : h \in {c \in Cacheable(hotkeys) :
                                            Strip(c.name) = name}}
          IN  IF ids # {} THEN new[name] \in ids ELSE new[name] = old[name]

\* C24: the catalog only grows during the life of a session object: no
\* call, close() included, removes an entry or changes the id of a name
\* that is not listed anew; and a refresh of the catalog with any list adds
\* or updates exactly the expression-toggle hotkeys with non-empty name and
\* id in that list, keeping every other entry with its last seen id.
C24_CatalogOnlyGrows ==
    /\ [][\A name \in DOMAIN hotkey_cache :
             /\ name \in DOMAIN hotkey_cache'
             /\ hotkey_cache'[name] = hotkey_cache[name]]_vars
    /\ [](\A hotkeys \in LaterLists :
             GrownBy(hotkey_cache, hotkeys,
                     CacheHotkeys(hotkey_cache, hotkeys)))

\* Happy was cached; a later refresh for Sad, in which the host listed no
\* Sad, and then close() have left Happy in the catalog.
C24_Witness ==
    /\ lastCall.op = "close"
    /\ prevCall.op = "apply_emotion"
    /\ TriggerName(prevCall.arg) = "Sad"
    /\ Len(ListRequests(prevCall)) = 1
    /\ prevCall.before = "Happy"
    /\ hotkey_cache = Put(EmptyDict, "Happy", "h1")

\* The last call applied excited or happy, returned normally, and Happy,
\* the trigger name of both, is in the catalog.
AppliedHappyName ==
    /\ AppliedConnected
    /\ lastCall.arg \in {"excited", "happy"}
    /\ lastCall.raised = ""
    /\ "Happy" \in DOMAIN hotkey_cache

\* C25: excited and happy map to the same trigger name, Happy; when one of
\* them has been applied and the other is applied next, the second call
\* sends no request and raises nothing, the active trigger name stays
\* Happy and the host's expressions stay as they were: the change of
\* label does not toggle the expression off.
C25_SharedNameNotToggled ==
    [][(/\ AppliedHappyName
        /\ lastCall'.op = "apply_emotion"
        /\ lastCall'.arg \in {"excited", "happy"}
        /\ lastCall'.arg # lastCall.arg)
       => /\ lastCall'.sent = << >>
          /\ lastCall'.raised = ""
          /\ last_active_hotkey = "Happy"
          /\ last_active_hotkey' = "Happy"
          /\ hostOn' = hostOn]_vars

\* excited switched Happy on, then happy was applied: nothing was sent and
\* the expression is still on at the host.
C25_Witness ==
    /\ prevCall.op = "apply_emotion" /\ prevCall.arg = "excited"
    /\ prevCall.raised = "" /\ Triggers(prevCall) # << >>
    /\ lastCall.op = "apply_emotion" /\ lastCall.arg = "happy"
    /\ lastCall.sent = << >>
    /\ last_active_hotkey = "Happy"
    /\ "h1" \in hostOn

----------------------------------------------------------------------------
(* Properties of the chat loop.                                            *)

IsListOrTrigger(req) ==
    req.messageType \in {"HotkeysInCurrentModelRequest", "HotkeyTriggerRequest"}

IsAuthentication(req) == req.messageType = "AuthenticationRequest"

Sends(call, P(_)) == \E k \in 1..Len(call.sent) : P(call.sent[k])

\* C5: connect() returns normally, and the avatar is marked ready, only
\* after an AuthenticationRequest was sent and answered positively; when
\* the token step ends without a credential or the authentication answer is
\* negative or malformed, connect() fails, and no hotkey-list or trigger
\* request is ever sent on a connection that was not authenticated.
C5_ReadyOnlyAfterAuthentication ==
    /\ (lastCall.op = "connect" /\ pc = "input") =>
          /\ avatar_ready <=> lastCall.raised = ""
          /\ avatar_ready => Sends(lastCall, IsAuthentication) /\ hostAuth
    /\ Sends(lastCall, IsListOrTrigger) => hostAuth

\* C6: once the avatar is not ready (connect() failed, or an apply_emotion
\* call raised) it never becomes ready again and no further call is made on
\* the session; the turn in which apply_emotion raised still prints its line
\* and starts its speech task; and the loop keeps running, every later turn
\* completing.
C6_DegradedSessionKeepsLoopRunning ==
    [][ /\ (avatar_ready /\ ~avatar_ready') =>
              /\ printed' = printed + 1
              /\ Len(speak_tasks') = Len(speak_tasks) + 1
              /\ pc' = "input"
        /\ (pc # "connect" /\ ~avatar_ready) =>
              /\ ~avatar_ready'
              /\ lastCall' = lastCall
              /\ pc' # "crashed"
      ]_vars

\* C7: a failure of gemini.reply aborts only the current turn; the loop
\* stays alive and the process does not terminate with the error.
C7_GenerationFailureKeepsLoopAlive == pc # "crashed"

Running == {i \in 1..Len(speak_tasks) : speak_tasks[i].thread = "running"}

\* C8: at most one tts.say is executing at any time, also while tasks are
\* being cancelled at shutdown.
C8_OneSynthesisAtATime == Cardinality(Running) <= 1

\* A task was cancelled while its tts.say thread is still running, its lock
\* is released, and other speech tasks exist.
C8_Witness ==
    /\ Len(speak_tasks) >= 2
    /\ ~locked
    /\ \E i \in 1..Len(speak_tasks) :
          speak_tasks[i].st = "cancelled" /\ speak_tasks[i].thread = "running"

\* C9: speech starts in turn order: of two turns i < j whose speech both
\* start, turn i's synthesis starts first and is no longer running when
\* turn j's starts.
C9_SpeechInTurnOrder ==
    /\ \A a, b \in 1..Len(started) : a < b => started[a] < started[b]
    /\ \A i, j \in 1..Len(speak_tasks) :
          (i < j /\ speak_tasks[j].thread = "running")
             => speak_tasks[i].thread # "running"

\* Three turns spoke, the later two after queueing for the lock.
C9_Witness ==
    /\ started = <<1, 2, 3>>
    /\ speak_tasks[3].thread = "running"

\* C10: the step that prints a turn's line ends at the next input prompt,
\* and from the prompt, the reply and the avatar update the loop always
\* moves on, whatever the speech tasks do and even if a tts.say call never
\* returns.
C10_SpeechNeverBlocksTurn ==
    /\ [][printed' > printed => pc' = "input"]_vars
    /\ \A p \in {"input", "reply", "apply"} : (pc = p) ~> (pc # p)

\* A second turn has printed its line and been followed by new input while
\* the first turn's synthesis is still running.
C10_Witness ==
    /\ printed >= 2
    /\ pc = "reply"
    /\ speak_tasks[1].thread = "running"

\* The shutdown sequence is under way: the user typed an exit command and
\* run_avatar_chat is at the bounded close() or at the bounded gather.
ShuttingDown == pc \in {"close", "gather"}

\* C11: once the user has entered an exit command the shutdown sequence
\* reaches its end (tts.stop() has run) without raising, also when close()
\* never returns and when a tts.say call never returns.
C11_ShutdownCompletes ==
    /\ [][ShuttingDown => pc' \in {"close", "gather", "done"}]_vars
    /\ ShuttingDown ~> (pc = "done")

\* Shutdown ended although close() was abandoned at its timeout (the
\* connection handle is still set) and a synthesis is still running.
C11_Witness ==
    /\ pc = "done"
    /\ avatar_ready
    /\ ws # None
    /\ Running # {}

\* C12: shutdown requests close() on every exit path of the turn loop, so
\* when shutdown has ended the connection handle is absent unless close()
\* was requested and hung (which only happens with the avatar still marked
\* ready); this also after a failed apply_emotion and after a connect()
\* that failed with the transport already open.
C12_ShutdownClosesSession ==
    pc = "done" => (ws = None \/ (avatar_ready /\ lastCall.op # "close"))

\* Strict request-then-response on a connection: every receive follows a
\* send, and every send is followed by a receive before the next send; the
\* last send may be left unanswered only by the call that gave up waiting
\* (the bounded wait for the token response).
RequestThenResponse(call) ==
    \A k \in 1..Len(call.wire) :
        IF call.wire[k] = "recv"
        THEN k > 1 /\ call.wire[k - 1] = "send"
        ELSE IF k < Len(call.wire)
             THEN call.wire[k + 1] = "recv"
             ELSE call.raised = "TimeoutError"

\* C13: in every call the chat makes on the avatar session (connect, the
\* catalog refreshes, apply_emotion, close) each send is followed by
\* exactly one receive before the next send, nothing is sent while an
\* earlier request is unanswered on the connection, and only the main
\* coroutine ever uses the connection: no step of a speech task does.
C13_OneRequestInFlight ==
    /\ []RequestThenResponse(lastCall)
    /\ [][lastCall' # lastCall => AtHead(0)]_vars

\* One apply_emotion refreshed the catalog, toggled the previous expression
\* off and the new one on: three sends, each answered before the next.
C13_Witness ==
    /\ lastCall.op = "apply_emotion"
    /\ Len(lastCall.sent) = 3
    /\ Len(lastCall.wire) = 6
    /\ speak_tasks # <<>>

\* A cancellation was requested for a task: it is pending for its next
\* step, or the future it awaits was cancelled.
CancelRequested(task) ==
    task.must_cancel \/ task.st \in {"waiting_cancelled", "speaking_cancelled"}

HasStarted(i) == \E k \in 1..Len(started) : started[k] = i

\* C17: the shutdown step requests the cancellation of every speech task
\* that is not finished; when shutdown has ended every speech task has
\* settled, none is queued for the speech lock, and no cancellation or task
\* error has left the gather; and no synthesis starts once shutdown has
\* cancelled the tasks: a task cancelled while waiting for the lock never
\* speaks.
C17_ShutdownSettlesSpeech ==
    /\ [][(pc \in {"input", "close"} /\ pc' \in {"gather", "done"}) =>
            \A i \in 1..Len(speak_tasks) :
               ~Settled(speak_tasks[i]) => CancelRequested(speak_tasks'[i])]_vars
    /\ [](pc = "done" => AllSettled /\ waiters = << >>)
    /\ [][pc = "gather" => pc' \in {"gather", "done"}]_vars
    /\ [][(pc \in {"gather", "done"}) => started' = started]_vars

\* Shutdown has ended; one task was cancelled while its synthesis was
\* running and another while it waited for the lock, without ever speaking.
C17_Witness ==
    /\ pc = "done"
    /\ \E i, j \in 1..Len(speak_tasks) :
          /\ speak_tasks[i].st = "cancelled" /\ speak_tasks[i].thread = "running"
          /\ speak_tasks[j].st = "cancelled" /\ ~HasStarted(j)

\* Task i holds the speech lock.
Holds(i) == speak_tasks[i].st \in {"speaking", "spoke", "speaking_cancelled"}

\* The tts.say call of task i raised and the task has not yet left the
\* "async with tts_lock" block.
SayFailed(i) ==
    speak_tasks[i].st = "spoke" /\ speak_tasks[i].thread = "raised"

\* Task j is the oldest task queued for the lock while the synthesis of
\* the task that holds the lock has raised.
QueuedBehindFailure(j) ==
    /\ j <= Len(speak_tasks)
    /\ waiters # << >> /\ Head(waiters) = j
    /\ \E i \in 1..Len(speak_tasks) : SayFailed(i)

IsCancelled(j) == j <= Len(speak_tasks) /\ speak_tasks[j].st = "cancelled"

\* C18: a tts.say call that raises aborts neither the turn nor the loop
\* and releases the speech lock: the step in which the failing task leaves
\* the lock block finishes the task (the error is caught inside it) and
\* leaves the main coroutine where it was; the lock is held only while a
\* task is inside the block; and the oldest task queued behind the failing
\* one acquires the lock and starts its synthesis, unless shutdown cancels
\* it first.
C18_SynthesisFailureReleasesLock ==
    /\ [][\A i \in 1..Len(speak_tasks) :
            (SayFailed(i) /\ speak_tasks'[i].st # "spoke") =>
                /\ Settled(speak_tasks'[i])
                /\ speak_tasks'[i].st = "cancelled" => speak_tasks[i].must_cancel
                /\ pc' = pc]_vars
    /\ [](locked <=> \E i \in 1..Len(speak_tasks) : Holds(i))
    /\ \A j \in 1..MaxTurns :
          QueuedBehindFailure(j)
            ~> (HasStarted(j) \/ IsCancelled(j))

\* The first synthesis raised, its task finished normally, and the task
\* that was queued behind it is speaking while the loop is at a later turn.
C18_Witness ==
    /\ Len(speak_tasks) >= 2
    /\ speak_tasks[1].thread = "raised" /\ speak_tasks[1].st = "done"
    /\ started = <<1, 2>>
    /\ speak_tasks[2].st = "speaking"
    /\ pc \in {"input", "reply", "apply"}

----------------------------------------------------------------------------
(* Properties of the threshold rule.                                       *)

\* The threshold a flow is said to use, in hundredths: 0.35 in the console
\* and avatar flows, 0.2 in the web flows.
StatedThreshold(flow) == IF flow \in {"console", "avatar"} THEN 35 ELSE 20

\* C20: the governing (label, score) of a turn is the user's pair exactly
\* when |userScore| >= T and the reply's pair otherwise, with T = 0.35 in
\* the console and avatar flows and T = 0.2 in the web flows; at
\* |userScore| = T it is the user's pair.
C20_ThresholdRule ==
    rule.governing # NoTurn =>
        /\ Abs(rule.user[2]) >= StatedThreshold(rule.flow)
              => rule.governing = rule.user
        /\ Abs(rule.user[2]) < StatedThreshold(rule.flow)
              => rule.governing = rule.bot

\* A web turn at the boundary: the user's score is exactly -0.2 and the
\* user's pair governs.
C20_Witness ==
    /\ rule.flow = "web_live2d"
    /\ rule.user = <<"sad", -20>>
    /\ rule.governing = rule.user

----------------------------------------------------------------------------
(* Properties of the web Live2D flow.                                      *)

\* The handlers whose tts.say call is executing.
WebSpeaking == {i \in DOMAIN web.handler : web.handler[i].pc = "say"}

\* C21: in the web Live2D flow at most one tts.say call is executing at
\* any moment, for any number of connected listeners and any interleaving
\* of their messages.
C21_WebOneSynthesisAtATime == Cardinality(WebSpeaking) <= 1

====
